---- MODULE Spec2Model ----
(***************************************************************************)
(* A model of the hand-built Vec<T> of rust_vec: the RawVec buffer, the    *)
(* Vec over it, the RawValIter cursor pair and the two consuming           *)
(* iterators (IntoIter, Drain).                                            *)
(*                                                                         *)
(* Memory is a sequence of cap slots (slot i of the code is buf[i+1]).     *)
(* A slot keeps its bits after ptr::read: reading moves ownership, it does *)
(* not clear the slot.  A slot that was never written holds Uninit; a read *)
(* of such a slot, or of a slot past the allocation, is undefined and is   *)
(* modelled as a choice among all bit patterns (Bits).                     *)
(***************************************************************************)
EXTENDS Integers, Sequences, FiniteSets

\* ------------------------------------------------------------------ bounds

\* Number of distinct values the caller owns and can hand to the Vec.
MaxElems == 3

\* Number of successful next_back() calls explored on one iterator.
MaxBackCalls == 3

\* Length of the Vecs the Vec of the state is compared with.
MaxOther == 3

\* ----------------------------------------------------------------- values

\* The values the caller can move into the Vec. A moved value is one owned
\* object: the caller cannot hand the same object over twice.
Elems == 1..MaxElems

\* Option::None, and the unit result of an operation that returns nothing.
None == -1

\* The content of a slot of a fresh allocation.
Uninit == -2

\* A bit pattern that is no value the caller ever handed over.
Garbage == -3

\* What a read of uninitialised or out-of-bounds memory can produce.
Bits == Elems \cup {Garbage}

\* mem::size_of::<T>() for the element type of the demonstration (i32).
ElemSize == 4

\* Width of usize in the model, in bits.
WordBits == 10

\* usize::MAX (!0) and isize::MAX at that width.
UsizeMax == 2 ^ WordBits - 1
IsizeMax == 2 ^ (WordBits - 1) - 1

\* ------------------------------------------------------------- raw memory

\* ptr::write(ptr.offset(i), e)
Write(b, i, e) == [b EXCEPT ![i + 1] = e]

\* ptr::copy(ptr.offset(src), ptr.offset(dst), count): a memmove.
Copy(b, src, dst, count) ==
    [k \in 1..Len(b) |->
        IF (k - 1) >= dst /\ (k - 1) < dst + count
        THEN b[(k - 1) - dst + src + 1]
        ELSE b[k]]

\* ptr::read(ptr.offset(i)) on a buffer of capacity Len(b); g is what the
\* build produces when the read is of uninitialised or out-of-bounds memory.
Read(b, i, g) ==
    IF i >= 0 /\ i < Len(b) /\ b[i + 1] # Uninit THEN b[i + 1] ELSE g

\* ----------------------------------------------------------------- RawVec

\* RawVec::new: the capacity of a fresh buffer.
RawVecNew == IF ElemSize = 0 THEN UsizeMax ELSE 0

\* A variant of grow that adds one slot instead of doubling.
GrowCapPlusOne(c) == (c + 1) % (UsizeMax + 1)

\* RawVec::grow, the new capacity.
GrowCap(c) == IF c = 0 THEN 1 ELSE (2 * c) % (UsizeMax + 1)

\* A variant of grow without the byte-size assertion.
GrowAssertsSizeOnly(c) == ElemSize # 0

\* The two assertions of RawVec::grow.
GrowAsserts(c) ==
    /\ ElemSize # 0
    /\ c # 0 => (c * ElemSize) % (UsizeMax + 1) <= IsizeMax \div 2

\* A variant of grow that allocates a new block instead of reallocating:
\* the old contents are lost.
GrowFresh(s) ==
    IF ~GrowAsserts(s.cap)
    THEN [s EXCEPT !.panicked = TRUE]
    ELSE [s EXCEPT !.cap = GrowCap(s.cap),
                   !.buf = [k \in 1..GrowCap(s.cap) |-> Uninit]]

\* RawVec::grow on a Vec record: Global.grow keeps the bits of the old
\* slots, the new slots are uninitialised; a failed assertion panics
\* before anything is changed.
Grow(s) ==
    IF ~GrowAsserts(s.cap)
    THEN [s EXCEPT !.panicked = TRUE]
    ELSE [s EXCEPT !.cap = GrowCap(s.cap),
                   !.buf = s.buf \o [k \in 1..(GrowCap(s.cap) - s.cap) |-> Uninit]]

\* -------------------------------------------------------------------- Vec

\* A Vec as a record; ret is the result of the last operation on it and
\* panicked says that the operation aborted.
MkVec(l, c, b) == [len |-> l, cap |-> c, buf |-> b, ret |-> None, panicked |-> FALSE]

\* Vec::new
VecNew == MkVec(0, RawVecNew, <<>>)

\* Deref: the slice view [0, len).
View(s) == SubSeq(s.buf, 1, s.len)

\* Vec::push
PushOp(s, elem) ==
    LET g == IF s.len = s.cap THEN Grow(s) ELSE s
    IN  IF g.panicked THEN g
        ELSE [g EXCEPT !.buf = Write(g.buf, s.len, elem), !.len = s.len + 1,
                       !.ret = None]

\* A variant of pop that reads before it decrements.
PopOpReadFirst(s) ==
    IF s.len = 0
    THEN [s EXCEPT !.ret = None]
    ELSE [s EXCEPT !.len = s.len - 1, !.ret = Read(s.buf, s.len, Garbage)]

\* A variant of pop that treats an empty Vec as a contract violation.
PopOpAbortOnEmpty(s) ==
    IF s.len = 0
    THEN [s EXCEPT !.ret = None, !.panicked = TRUE]
    ELSE [s EXCEPT !.len = s.len - 1, !.ret = Read(s.buf, s.len - 1, Garbage)]

\* Vec::pop. (The slot it reads, len - 1, is inside the allocation and
\* initialised in every state the Vec reaches, so the last argument of Read
\* is never used here, nor in remove or in the destructor loops.)
PopOp(s) ==
    IF s.len = 0
    THEN [s EXCEPT !.ret = None]
    ELSE [s EXCEPT !.len = s.len - 1, !.ret = Read(s.buf, s.len - 1, Garbage)]

\* A variant of insert that grows the buffer before it checks the index.
InsertOpGrowFirst(s, index, elem) ==
    LET g == IF s.cap = s.len THEN Grow(s) ELSE s
    IN  IF g.panicked \/ ~(index <= s.len)
        THEN [g EXCEPT !.ret = None, !.panicked = TRUE]
        ELSE LET c == IF index < s.len
                      THEN [g EXCEPT !.buf = Copy(g.buf, index, index + 1, s.len - index)]
                      ELSE g
             IN  IF g.panicked THEN g
                 ELSE [c EXCEPT !.buf = Write(c.buf, index, elem), !.len = s.len + 1,
                                !.ret = None]

\* A variant of insert that shifts one element too few.
InsertOpShortShift(s, index, elem) ==
    IF ~(index <= s.len)
    THEN [s EXCEPT !.ret = None, !.panicked = TRUE]
    ELSE LET g == IF s.cap = s.len THEN Grow(s) ELSE s
             c == IF index < s.len
                  THEN [g EXCEPT !.buf = Copy(g.buf, index, index + 1, s.len - index - 1)]
                  ELSE g
         IN  IF g.panicked THEN g
             ELSE [c EXCEPT !.buf = Write(c.buf, index, elem), !.len = s.len + 1,
                            !.ret = None]

\* Vec::insert
InsertOp(s, index, elem) ==
    IF ~(index <= s.len)
    THEN [s EXCEPT !.ret = None, !.panicked = TRUE]
    ELSE LET g == IF s.cap = s.len THEN Grow(s) ELSE s
             c == IF index < s.len
                  THEN [g EXCEPT !.buf = Copy(g.buf, index, index + 1, s.len - index)]
                  ELSE g
         IN  IF g.panicked THEN g
             ELSE [c EXCEPT !.buf = Write(c.buf, index, elem), !.len = s.len + 1,
                            !.ret = None]

\* A variant of remove that forgets to copy the tail down.
RemoveOpNoShift(s, index) ==
    IF ~(index < s.len)
    THEN [s EXCEPT !.ret = None, !.panicked = TRUE]
    ELSE [s EXCEPT !.len = s.len - 1, !.ret = Read(s.buf, index, Garbage)]

\* Vec::remove: the length is decremented, the tail is copied down over
\* slot index, and only then slot index is read.
RemoveOp(s, index) ==
    IF ~(index < s.len)
    THEN [s EXCEPT !.ret = None, !.panicked = TRUE]
    ELSE LET l == s.len - 1
             b == Copy(s.buf, index + 1, index, l - index)
         IN  [s EXCEPT !.len = l, !.buf = b, !.ret = Read(b, index, Garbage)]

\* A variant of drain that forgets to empty the source.
DrainOpKeepLen(s) == [s EXCEPT !.ret = None]

\* Vec::drain, its effect on the Vec.
DrainOp(s) == [s EXCEPT !.len = 0, !.ret = None]

\* custom_vec![t[1], ..., t[n]]: a new Vec and one push per element.
RECURSIVE CustomVec(_)
CustomVec(t) ==
    IF t = <<>> THEN VecNew
    ELSE PushOp(CustomVec(SubSeq(t, 1, Len(t) - 1)), t[Len(t)])

\* The loop of PartialEq::eq from position i on: the first unequal pair
\* returns false.
RECURSIVE EqFrom(_, _, _)
EqFrom(a, b, i) ==
    IF i = a.len THEN TRUE
    ELSE IF View(b)[i + 1] = View(a)[i + 1] THEN EqFrom(a, b, i + 1)
    ELSE FALSE

\* A variant of eq that compares the common prefix only (a zip of the two
\* slices, without the length check).
VecEqZip(a, b) ==
    \A i \in 1..(IF a.len < b.len THEN a.len ELSE b.len) : View(a)[i] = View(b)[i]

\* PartialEq::eq for Vec
VecEq(a, b) ==
    IF a.len # b.len THEN FALSE ELSE EqFrom(a, b, 0)

\* ------------------------------------------------------------- RawValIter

\* RawValIter::new over the slice view of s: the cursors as slot indices.
RawValIterNew(s) ==
    [start |-> 0,
     end   |-> IF ElemSize = 0 THEN s.len
               ELSE IF s.len = 0 THEN 0
               ELSE s.len]

\* A variant of next that advances before it reads.
RawNextAdvanceFirst(it, b, g) ==
    IF it.start = it.end
    THEN [start |-> it.start, end |-> it.end, slot |-> None, ret |-> None]
    ELSE [start |-> it.start + 1, end |-> it.end, slot |-> it.start + 1,
          ret |-> Read(b, it.start + 1, g)]

\* RawValIter::next: slot is the slot it read (None when exhausted).
RawNext(it, b, g) ==
    IF it.start = it.end
    THEN [start |-> it.start, end |-> it.end, slot |-> None, ret |-> None]
    ELSE [start |-> it.start + 1, end |-> it.end, slot |-> it.start,
          ret |-> Read(b, it.start, g)]

\* RawValIter::next_back: it assigns end - 1 to start, leaves end alone and
\* reads the slot at end.
RawNextBack(it, b, g) ==
    IF it.start = it.end
    THEN [start |-> it.start, end |-> it.end, slot |-> None, ret |-> None]
    ELSE [start |-> it.end - 1, end |-> it.end, slot |-> it.end,
          ret |-> Read(b, it.end, g)]

\* RawValIter::size_hint
SizeHint(it) == (it.end * ElemSize - it.start * ElemSize) \div (IF ElemSize = 0 THEN 1 ELSE ElemSize)

\* The slots a `for _ in &mut *self {}` loop reads: next() until None.
RECURSIVE Exhaust(_, _)
Exhaust(it, b) ==
    LET r == RawNext(it, b, Garbage)
    IN  IF r.slot = None THEN <<>>
        ELSE <<r.slot>> \o Exhaust([start |-> r.start, end |-> r.end], b)

\* ------------------------------------------------------------------ state

VARIABLES
    phase,      \* which object is live: "vec", "panicked", "into", "drain",
                \* "fields" (a destructor ran, the RawVec field is next), "done"
    len,        \* Vec.len
    cap,        \* RawVec.cap
    buf,        \* the allocation, cap slots
    start,      \* RawValIter.start, as a slot index
    end,        \* RawValIter.end, as a slot index
    owner,      \* the struct that holds the RawVec: "Vec" or "IntoIter"
    call,       \* the last call: its name, arguments and result
    n0,         \* the length of the span the live iterator was created over
    reads,      \* the yields of the live iterator: who read which slot
    discarded,  \* the slots read and dropped by the last destructor loop
    freed,      \* number of times the allocation was released
    vecDrops,   \* number of times Vec's destructor ran
    handed,     \* the values the caller has moved into the Vec so far
    pushed,     \* the values pushed, while every call so far was a push
    drained     \* the values that were in the view when drain() took them

vars == <<phase, len, cap, buf, start, end, owner, call, n0, reads, discarded,
          freed, vecDrops, handed, pushed, drained>>

\* The Vec of the current state.
Self == MkVec(len, cap, buf)

\* The RawValIter of the current state.
Iter == [start |-> start, end |-> end]

Call(op, index, elem, ret) == [op |-> op, index |-> index, elem |-> elem, ret |-> ret]

\* The marker of a history that is not pushes only.
Mixed == <<None>>

Fresh == Elems \ handed

Init ==
    /\ phase = "vec"
    /\ len = VecNew.len
    /\ cap = VecNew.cap
    /\ buf = VecNew.buf
    /\ start = 0
    /\ end = 0
    /\ owner = "Vec"
    /\ call = Call("new", 0, None, None)
    /\ n0 = 0
    /\ reads = <<>>
    /\ discarded = <<>>
    /\ freed = 0
    /\ vecDrops = 0
    /\ handed = {}
    /\ pushed = <<>>
    /\ drained = {}

\* The Vec of the next state is r; a panic leaves only unwinding.
SetVec(r) ==
    /\ len' = r.len
    /\ cap' = r.cap
    /\ buf' = r.buf
    /\ phase' = IF r.panicked THEN "panicked" ELSE "vec"

Push(elem) ==
    /\ phase = "vec"
    /\ elem \in Fresh
    /\ LET r == PushOp(Self, elem)
       IN  /\ SetVec(r)
           /\ call' = Call("push", 0, elem, r.ret)
    /\ handed' = handed \cup {elem}
    /\ pushed' = IF pushed = Mixed THEN Mixed ELSE Append(pushed, elem)
    /\ UNCHANGED <<start, end, owner, n0, reads, discarded, freed, vecDrops,
                   drained>>

Pop ==
    /\ phase = "vec"
    /\ LET r == PopOp(Self)
       IN  /\ SetVec(r)
           /\ call' = Call("pop", 0, None, r.ret)
    /\ pushed' = Mixed
    /\ UNCHANGED <<start, end, owner, n0, reads, discarded, freed, vecDrops,
                   handed, drained>>

Insert(index, elem) ==
    /\ phase = "vec"
    /\ elem \in Fresh
    /\ LET r == InsertOp(Self, index, elem)
       IN  /\ SetVec(r)
           /\ call' = Call(IF r.panicked THEN "insert_panic" ELSE "insert",
                           index, elem, r.ret)
    /\ handed' = handed \cup {elem}
    /\ pushed' = Mixed
    /\ UNCHANGED <<start, end, owner, n0, reads, discarded, freed, vecDrops,
                   drained>>

Remove(index) ==
    /\ phase = "vec"
    /\ LET r == RemoveOp(Self, index)
       IN  /\ SetVec(r)
           /\ call' = Call(IF r.panicked THEN "remove_panic" ELSE "remove",
                           index, None, r.ret)
    /\ pushed' = Mixed
    /\ UNCHANGED <<start, end, owner, n0, reads, discarded, freed, vecDrops,
                   handed, drained>>

\* Vec::into_iter: the cursors are taken from the slice view, the RawVec is
\* moved into the IntoIter and mem::forget keeps Vec's destructor from
\* running.
IntoIter ==
    /\ phase = "vec"
    /\ LET it == RawValIterNew(Self)
       IN  /\ start' = it.start
           /\ end' = it.end
    /\ owner' = "IntoIter"
    /\ phase' = "into"
    /\ n0' = len
    /\ reads' = <<>>
    /\ discarded' = <<>>
    /\ call' = Call("into_iter", 0, None, None)
    /\ pushed' = Mixed
    /\ UNCHANGED <<len, cap, buf, freed, vecDrops, handed, drained>>

\* Vec::drain: the cursors are taken first, then the length is zeroed.
Drain ==
    /\ phase = "vec"
    /\ LET it == RawValIterNew(Self)
           r  == DrainOp(Self)
       IN  /\ start' = it.start
           /\ end' = it.end
           /\ len' = r.len
    /\ phase' = "drain"
    /\ n0' = len
    /\ reads' = <<>>
    /\ discarded' = <<>>
    /\ call' = Call("drain", 0, None, None)
    /\ pushed' = Mixed
    /\ drained' = drained \cup {buf[i] : i \in 1..len}
    /\ UNCHANGED <<cap, buf, owner, freed, vecDrops, handed>>

\* The iterator of the next state is r, the result of a cursor step by `by`.
Yield(by, r) ==
    /\ start' = r.start
    /\ end' = r.end
    /\ reads' = IF r.slot = None THEN reads
                ELSE Append(reads, [by |-> by, slot |-> r.slot])
    /\ call' = Call(by, 0, None, r.ret)
    /\ UNCHANGED <<phase, len, cap, buf, owner, n0, discarded, freed, vecDrops,
                   handed, pushed, drained>>

BackCalls == Cardinality({k \in 1..Len(reads) : reads[k].by = "next_back"})

\* IntoIter::next
IntoIterNext ==
    /\ phase = "into"
    /\ \E g \in Bits : Yield("next", RawNext(Iter, buf, g))

\* IntoIter::next_back
IntoIterNextBack ==
    /\ phase = "into"
    /\ BackCalls < MaxBackCalls
    /\ \E g \in Bits : Yield("next_back", RawNextBack(Iter, buf, g))

\* Drain::next: forwards to the RawValIter.
DrainNext ==
    /\ phase = "drain"
    /\ \E g \in Bits : Yield("next", RawNext(Iter, buf, g))

\* Drain::next_back: forwards to the RawValIter.
DrainNextBack ==
    /\ phase = "drain"
    /\ BackCalls < MaxBackCalls
    /\ \E g \in Bits : Yield("next_back", RawNextBack(Iter, buf, g))

\* Drop for IntoIter: the loop reads what next() still yields; the RawVec
\* field is dropped after it.
IntoIterDrop ==
    /\ phase = "into"
    /\ discarded' = Exhaust(Iter, buf)
    /\ start' = end
    /\ phase' = "fields"
    /\ call' = Call("drop_into_iter", 0, None, None)
    /\ UNCHANGED <<len, cap, buf, end, owner, n0, reads, freed, vecDrops,
                   handed, pushed, drained>>

\* Drop for Drain: drives the iterator to exhaustion and ends the borrow.
DrainDrop ==
    /\ phase = "drain"
    /\ discarded' = Exhaust(Iter, buf)
    /\ start' = end
    /\ phase' = "vec"
    /\ call' = Call("drop_drain", 0, None, None)
    /\ UNCHANGED <<len, cap, buf, end, owner, n0, reads, freed, vecDrops,
                   handed, pushed, drained>>

\* The slots a `while let Some(_) = self.pop() {}` loop reads: l-1 down to 0.
RECURSIVE PopAll(_)
PopAll(s) ==
    LET r == PopOp(s)
    IN  IF s.len = 0 THEN <<>> ELSE <<r.len>> \o PopAll(r)

\* Drop for Vec, at scope exit or while a panic unwinds; the RawVec field
\* is dropped after it.
VecDrop ==
    /\ phase \in {"vec", "panicked"}
    /\ IF cap # 0
       THEN /\ discarded' = PopAll(Self)
            /\ len' = 0
       ELSE UNCHANGED <<discarded, len>>
    /\ vecDrops' = vecDrops + 1
    /\ phase' = "fields"
    /\ call' = Call("drop_vec", 0, None, None)
    /\ pushed' = Mixed
    /\ UNCHANGED <<cap, buf, start, end, owner, n0, reads, freed, handed,
                   drained>>

\* Drop for RawVec: releases the allocation of the current capacity.
RawVecDrop ==
    /\ phase = "fields"
    /\ freed' = IF cap # 0 /\ ElemSize # 0 THEN freed + 1 ELSE freed
    /\ phase' = "done"
    /\ call' = Call("drop_rawvec", 0, None, None)
    /\ UNCHANGED <<len, cap, buf, start, end, owner, n0, reads, discarded,
                   vecDrops, handed, pushed, drained>>

Next ==
    \/ \E elem \in Elems : Push(elem)
    \/ Pop
    \/ \E index \in 0..MaxElems, elem \in Elems : Insert(index, elem)
    \/ \E index \in 0..MaxElems : Remove(index)
    \/ IntoIter
    \/ Drain
    \/ IntoIterNext
    \/ IntoIterNextBack
    \/ DrainNext
    \/ DrainNextBack
    \/ IntoIterDrop
    \/ DrainDrop
    \/ VecDrop
    \/ RawVecDrop

Spec == Init /\ [][Next]_vars

\* The calls on a Vec alone, without its iterators and destructors.
NextVec ==
    \/ \E elem \in Elems : Push(elem)
    \/ Pop
    \/ \E index \in 0..MaxElems, elem \in Elems : Insert(index, elem)
    \/ \E index \in 0..MaxElems : Remove(index)

SpecVec == Init /\ [][NextVec]_vars

\* A loop that pushes one Copy value (an i32, as in the demonstration)
\* over and over: the value of the first push is pushed again by each
\* later one.
PushCopy(elem) ==
    /\ phase = "vec"
    /\ IF len = 0 THEN TRUE ELSE elem = buf[1]
    /\ LET r == PushOp(Self, elem)
       IN  /\ SetVec(r)
           /\ call' = Call("push", 0, elem, r.ret)
    /\ handed' = handed \cup {elem}
    /\ pushed' = IF pushed = Mixed THEN Mixed ELSE Append(pushed, elem)
    /\ UNCHANGED <<start, end, owner, n0, reads, discarded, freed, vecDrops,
                   drained>>

\* A Vec filled until grow refuses to grow it.
NextGrow == \E elem \in Elems : PushCopy(elem)

SpecGrow == Init /\ [][NextGrow]_vars

\* ----------------------------------------------------------------- claims

\* seq without its element at 0-based position i.
RemoveAt(seq, i) == SubSeq(seq, 1, i) \o SubSeq(seq, i + 2, Len(seq))

\* Every yield so far came from next().
OnlyNext == \A k \in 1..Len(reads) : reads[k].by = "next"

\* Every yield so far came from next_back().
OnlyBack == \A k \in 1..Len(reads) : reads[k].by = "next_back"

\* What a front-to-back consumption of a span of n0 elements must look like:
\* the k-th yield read slot k-1 and returned the element stored there, and
\* a None was returned only after n0 yields.
FrontToBack ==
    /\ Len(reads) <= n0
    /\ start = Len(reads)
    /\ \A k \in 1..Len(reads) : reads[k].slot = k - 1
    /\ (call.op = "next" /\ call.ret # None) =>
           (Len(reads) >= 1 /\ call.ret = buf[Len(reads)])
    /\ (call.op = "next" /\ call.ret = None) => Len(reads) = n0

\* C1: starting from an empty Vec, after N pushes the length is N and slot i
\* of the slice view holds the i-th pushed value.
C1_PushesAppend ==
    (pushed # Mixed /\ phase = "vec") =>
        /\ len = Len(pushed)
        /\ \A i \in 0..(Len(pushed) - 1) : View(Self)[i + 1] = pushed[i + 1]

\* C1 witness: three pushes, through the reallocations 0 -> 1 -> 2 -> 4.
C1_Witness ==
    /\ pushed # Mixed
    /\ phase = "vec"
    /\ Len(pushed) >= 3
    /\ cap > len

\* C2: remove(i), i < len, returns the value that was in slot i, keeps the
\* other elements in order and reduces the length by one.
C2_RemoveReturnsSlot ==
    [][call'.op = "remove" =>
          /\ call'.index < len
          /\ call'.ret = buf[call'.index + 1]
          /\ len' = len - 1
          /\ SubSeq(buf', 1, len') = RemoveAt(View(Self), call'.index)]_vars

C4_IntoIterFront ==
    (phase = "into" /\ OnlyNext) => (n0 = len /\ FrontToBack)

\* C4 witness: an IntoIter over at least two elements, exhausted by next().
C4_Witness ==
    /\ phase = "into"
    /\ OnlyNext
    /\ n0 >= 2
    /\ call.op = "next"
    /\ call.ret = None
    /\ Len(reads) = n0

\* C5: an IntoIter over n elements consumed with next_back() only yields the
\* elements in reverse order, the k-th yield reading slot n - k, and is
\* exhausted after n yields.
C5_IntoIterBack ==
    (phase = "into" /\ OnlyBack) =>
        /\ Len(reads) <= n0
        /\ \A k \in 1..Len(reads) : reads[k].slot = n0 - k
        /\ (call.op = "next_back" /\ call.ret # None) =>
               (Len(reads) >= 1 /\ call.ret = buf[n0 - Len(reads) + 1])
        /\ (call.op = "next_back" /\ call.ret = None) => Len(reads) = n0

\* C6: whatever the interleaving of next() and next_back(), no slot is read
\* twice and every slot read is one of the original [0, n).
C6_NoOverlap ==
    phase = "into" =>
        /\ \A k \in 1..Len(reads) : reads[k].slot >= 0 /\ reads[k].slot < n0
        /\ \A j, k \in 1..Len(reads) : j # k => reads[j].slot # reads[k].slot

\* C7: drain() zeroes the source's length before anything is yielded, and
\* the Drain consumed from the front yields the n elements in order, once
\* each, then None.
C7_DrainFront ==
    phase = "drain" => (len = 0 /\ (OnlyNext => FrontToBack))

\* C7 witness: a Drain over at least two elements, exhausted by next().
C7_Witness ==
    /\ phase = "drain"
    /\ OnlyNext
    /\ n0 >= 2
    /\ call.op = "next"
    /\ call.ret = None
    /\ Len(reads) = n0

\* The slots that were yielded or discarded by the destructor.
Accounted == [k \in 1..(Len(reads) + Len(discarded)) |->
                 IF k <= Len(reads) THEN reads[k].slot
                 ELSE discarded[k - Len(reads)]]

\* C8: when an IntoIter is destroyed, every original element was yielded or
\* discarded exactly once, the buffer is released once and only after that,
\* and the destructor of the consumed Vec never ran.
C8_IntoIterDropAccounts ==
    owner = "IntoIter" =>
        /\ vecDrops = 0
        /\ phase \in {"into", "fields"} => freed = 0
        /\ phase \in {"fields", "done"} =>
               /\ Len(Accounted) = n0
               /\ \A i \in 0..(n0 - 1) :
                      Cardinality({k \in 1..Len(Accounted) : Accounted[k] = i}) = 1
        /\ phase = "done" => freed = (IF cap # 0 THEN 1 ELSE 0)

C10_PushPop ==
    phase = "vec" =>
        \A e \in Fresh :
            LET p == PushOp(Self, e)
                q == PopOp(p)
            IN  /\ ~p.panicked
                /\ q.ret = e
                /\ q.len = len
                /\ View(q) = View(Self)
                /\ q.cap >= cap

\* C10 witness: a full, non-empty Vec, where the push has to reallocate.
C10_Witness ==
    /\ phase = "vec"
    /\ len = cap
    /\ len > 0
    /\ \E e \in Fresh :
           /\ PopOp(PushOp(Self, e)).ret = e
           /\ PopOp(PushOp(Self, e)).cap > cap

\* C11: pop() on a Vec of length 0 returns None without aborting and leaves
\* the length at 0 and the capacity and the buffer as they were, whether
\* the Vec was never filled or was emptied by pop, remove or drain.
C11_PopEmpty ==
    [][(call'.op = "pop" /\ len = 0) =>
          /\ call'.ret = None
          /\ phase' = "vec"
          /\ len' = 0
          /\ cap' = cap
          /\ buf' = buf]_vars

\* C11 witness: a pop that found the Vec empty after a drain had emptied it.
C11_Witness ==
    /\ call.op = "pop"
    /\ call.ret = None
    /\ phase = "vec"
    /\ len = 0
    /\ cap > 0
    /\ n0 > 0

\* The contents of the Vecs compared with: every sequence of values of
\* length MaxOther or less.
Others == UNION {[1..n -> Elems] : n \in 0..MaxOther}

\* C12: two Vecs compare equal exactly when their lengths are equal and
\* their elements are equal position by position, whatever their capacities
\* and the calls that produced them.
C12_EqByContent ==
    phase = "vec" =>
        \A t \in Others :
            LET o == CustomVec(t)
            IN  /\ VecEq(Self, o) <=>
                       (len = Len(t) /\ \A i \in 1..len : buf[i] = t[i])
                /\ VecEq(o, Self) <=> VecEq(Self, o)

\* C12 witness: a Vec that pops have left with more capacity than a Vec
\* pushed to the same contents, and that compares equal to it.
C12_Witness ==
    /\ phase = "vec"
    /\ call.op = "pop"
    /\ len >= 1
    /\ View(Self) \in Others
    /\ cap > CustomVec(View(Self)).cap
    /\ VecEq(Self, CustomVec(View(Self)))

\* C13: insert(index, v) panics whenever index >= len, the case
\* index = len included (the doc comment of insert).
C13_InsertPanicsAtLen ==
    [][(call'.op \in {"insert", "insert_panic"} /\ call'.index >= len) =>
          call'.op = "insert_panic"]_vars

\* The number of times e occurs in seq.
Count(seq, e) == Cardinality({k \in 1..Len(seq) : seq[k] = e})

\* The values in the slots whose numbers are in slots.
ValuesAt(b, slots) == [k \in 1..Len(slots) |-> b[slots[k] + 1]]

\* C14: over push, pop, insert, remove and the destruction of the Vec,
\* every value handed in is returned or destroyed exactly once: a push or
\* insert adds its value to the live range and nothing else, a pop or
\* remove takes exactly the value it returns out of the live range, no value
\* is live twice, and the destructor destroys exactly the live values.
C14_ExactlyOnce ==
    [][/\ call'.op \in {"push", "insert"} =>
              \A e \in Elems :
                  Count(SubSeq(buf', 1, len'), e) =
                      Count(View(Self), e) + (IF e = call'.elem THEN 1 ELSE 0)
       /\ (call'.op \in {"pop", "remove"} /\ call'.ret # None) =>
              \A e \in Elems :
                  Count(View(Self), e) =
                      Count(SubSeq(buf', 1, len'), e) + (IF e = call'.ret THEN 1 ELSE 0)
       /\ phase' = "vec" =>
              \A e \in Elems : Count(SubSeq(buf', 1, len'), e) <= 1
       /\ (phase = "vec" /\ call'.op = "drop_vec") =>
              \A e \in Elems :
                  Count(ValuesAt(buf, discarded'), e) = Count(View(Self), e)]_vars

\* seq with v put in at 0-based position i.
InsertAt(seq, i, v) == SubSeq(seq, 1, i) \o <<v>> \o SubSeq(seq, i + 1, Len(seq))

IsPow2(c) == \E k \in 0..WordBits : c = 2 ^ k

\* C16: the capacity changes only in a push or insert called with
\* len = cap, and then from 0 to 1 or from c to 2c; every other call leaves
\* it alone, so it never decreases and is 0 or a power of two, and it is 0
\* exactly when there is no allocation.
C16_CapacityFrame ==
    [][/\ cap' # cap =>
              /\ call'.op \in {"push", "insert"}
              /\ len = cap
              /\ cap' = (IF cap = 0 THEN 1 ELSE 2 * cap)
       /\ (call'.op \in {"push", "insert"} /\ len < cap) => cap' = cap
       /\ cap' >= cap
       /\ cap' = 0 \/ IsPow2(cap')
       /\ freed' = 0 => (cap' = 0 <=> Len(buf') = 0)]_vars

\* C16 witness: an insert or push that found two elements in two slots and
\* doubled the capacity to four.
C16_Witness ==
    /\ call.op \in {"push", "insert"}
    /\ len >= 3
    /\ cap = 2 * (len - 1)

\* C17: after any next() and next_back() calls on a cursor pair created
\* over n elements, start <= end, the span has only shrunk, and size_hint is
\* n minus the number of elements yielded so far.
C17_SpanAndSizeHint ==
    [][(phase = "into" /\ call'.op \in {"next", "next_back"}) =>
          /\ start' <= end'
          /\ start' >= start
          /\ end' <= end
          /\ SizeHint([start |-> start', end |-> end']) = n0 - Len(reads')]_vars

\* C18: on a span of n elements every successful next() or next_back()
\* strictly reduces the remaining count, so that no more than n calls
\* succeed before the iterator reports exhausted, and the destructor loop
\* of IntoIter ends with the iterator exhausted.
C18_YieldsTerminate ==
    [][/\ (phase = "into" /\ Len(reads') = Len(reads) + 1) =>
              /\ SizeHint([start |-> start', end |-> end']) < SizeHint(Iter)
              /\ Len(reads') <= n0
       /\ call'.op = "drop_into_iter" => start' = end']_vars

\* C19: a push never leaves a capacity whose byte size is above isize::MAX;
\* a push that has to grow a buffer whose byte size is above half of
\* isize::MAX aborts and leaves length, capacity and allocation as they
\* were; and the products cap * elem_size and 2 * cap that grow computes
\* are below 2^WordBits, that is, they do not wrap around.
C19_GrowNoOverflow ==
    [][call'.op = "push" =>
          /\ cap' * ElemSize <= IsizeMax
          /\ (len = cap /\ cap * ElemSize > IsizeMax \div 2) =>
                 /\ phase' = "panicked"
                 /\ len' = len /\ cap' = cap /\ buf' = buf
          /\ (len = cap /\ cap # 0) =>
                 /\ cap * ElemSize <= UsizeMax
                 /\ 2 * cap <= UsizeMax]_vars

\* A push found the buffer full at a byte size above half of isize::MAX.
C19_Witness ==
    /\ call.op = "push"
    /\ phase = "panicked"
    /\ len = cap
    /\ cap * ElemSize > IsizeMax \div 2

\* C20: drain() and every later step of the draining iterator, its
\* destruction after any number of yields included, leave the source with
\* length 0 and with its capacity and allocation as they were; when the
\* source is destroyed later, no drained value is among the values its
\* destructor destroys; and a push that follows the iterator's destruction
\* stores its value in slot 0 and gives length 1.
C20_DrainAbandoned ==
    [][/\ (call'.op = "drain" \/ phase = "drain") =>
              /\ len' = 0
              /\ cap' = cap
              /\ buf' = buf
              /\ freed' = freed
       /\ call'.op = "drop_vec" =>
              \A k \in 1..Len(discarded') :
                  (cap # 0) => ValuesAt(buf, discarded')[k] \notin drained
       /\ (call.op = "drop_drain" /\ call'.op = "push") =>
              /\ phase' = "vec"
              /\ len' = 1
              /\ buf'[1] = call'.elem]_vars

\* A draining iterator over two values was destroyed after one yield, a
\* value was pushed, and the source was destroyed with that value in it.
C20_Witness ==
    /\ call.op = "drop_vec"
    /\ n0 = 2
    /\ Len(reads) = 1
    /\ Cardinality(drained) = 2
    /\ len = 0
    /\ Len(discarded) = 1
    /\ buf[1] \notin drained

====
